---- MODULE Spec2Model ----
(***************************************************************************)
(* Collision-rejection sampling of Joint_AgentFormer                       *)
(* (src/collision_rejection.py): run_model_w_col_rej dispatches on the     *)
(* model family to one of three policies,                                  *)
(*   A = col_rej_one_run_only, B = per_sample_col_rej, C = col_rej.        *)
(*                                                                         *)
(* A sample is a record [draw, idx, col, scaled]: the sampler invocation    *)
(* that first produced its values, its index in that batch, whether        *)
(* check_collision_per_sample_no_gt reports a collision for it, and how    *)
(* many times its values have been multiplied by traj_scale.  A batch is   *)
(* a sequence of samples.  None and the empty tensor are both <<>>.        *)
(***************************************************************************)
EXTENDS Integers, Sequences, FiniteSets, TLC

VARIABLES
    family,               \* model family: what the isinstance tests of run_model_w_col_rej see
    sample_k,             \* the caller's sample_k (cfg.sample_k)
    nk,                   \* model.nk
    traj_scale,           \* the caller's traj_scale
    num_peds,             \* pred_arr.shape[1]: agents in the scene
    pc,                   \* position of the call
    raised,               \* exception that ended the call, "" if none
    num_tries,            \* local num_tries of policies B and C
    num_zeros,            \* local num_zeros of policy C
    num_samples_wo_col,   \* local num_samples_wo_col of policy B
    all_non_collide_idx,  \* local all_non_collide_idx of policy B
    sample_motion_3D,     \* local sample_motion_3D: the batch of the latest draw (<<>> before it)
    sample_motion_3D_prev,\* local sample_motion_3D_prev (<<>> for None)
    samples_to_return,    \* local samples_to_return (<<>> for None / empty tensor)
    collision_info,       \* local collision_info (<<>> for None)
    pred_motion,          \* where the tensor returned as pred_motion lives ("" before the return);
                          \* its samples are those of samples_to_return
    gt_motion,            \* the tensor returned as gt_motion (<<>> before the return)
    invocations,          \* observer: model.inference calls made so far
    checks,               \* observer: pool.map collision-check calls made so far
    firstClean,           \* observer: per index, the first non-colliding sample drawn there
    seen,                 \* observer: the collision statuses of the samples drawn so far
    repeated,             \* observer: some invocation returned the values of the one before
    last_kind,            \* observer: how the latest invocation's output relates to the one before
    mode,                 \* trainer: the pass being run, "train", "val" or "test"
    collisions_ok,        \* trainer: cfg entry 'collisions_ok': "true", "false" or "absent"
    outputs,              \* trainer: the step outputs collected for the epoch
    results_dict,         \* trainer: results_dict of _epoch_end (<<>> before it is built)
    frames,               \* trainer: rows saved to colliding_frame_nums (<<>> for none)
    trainer_pc,           \* trainer: position of the pass
    trainer_raised,       \* trainer: exception that ended the pass, "" if none
    policy_runs,          \* observer: calls of run_model_w_col_rej made by the pass
    info_read,            \* observer: _epoch_end has read a 'num_samples_w_col' entry
    frame_path,           \* get_trajs: its argument frame_path
    method,               \* get_trajs: its argument method
    listing,              \* get_trajs: the *.txt files of the frame directory
    remaining,            \* get_trajs: files the loop over glob has still to visit
    pred_gt_traj,         \* get_trajs: local pred_gt_traj (<<>> for None)
    obs_traj,             \* get_trajs: local obs_traj (<<>> for None)
    samples,              \* get_trajs: local samples
    trajs_pc,             \* get_trajs: position of the call
    trajs_raised,         \* get_trajs: the exception that ended the call (<<>> for none)
    trajs_result,         \* get_trajs: the arrays returned (<<>> before the return)
    processes,            \* pool: the `processes` argument of multiprocessing.Pool
    pool_alive,           \* pool: worker processes alive (0 outside the with block)
    pool_task,            \* pool: per task of the map call, "queued", "running" or "done"
    pool_slot,            \* pool: the result list of the map call, filled as tasks finish
    pool_order,           \* observer: the tasks in the order in which they finished
    mask,                 \* local mask: what pool.map returned (<<>> before it returns)
    mp,                   \* trainer: self.args.mp
    all_metrics,          \* trainer: local all_metrics of _epoch_end (<<>> before line 172/177)
    main_method,          \* main: the method of the loop iteration ("" outside main)
    ade_argmins,          \* main: per agent, the index of its best sample
    sades_reverse,        \* main: the sample indices by decreasing sample_sades
    selected_samples,     \* main: local selected_samples
    sade_i,               \* main: local sade_i
    main_pc               \* main: position of the iteration

vars == <<family, sample_k, nk, traj_scale, num_peds, pc, raised, num_tries, num_zeros,
          num_samples_wo_col, all_non_collide_idx, sample_motion_3D, sample_motion_3D_prev,
          samples_to_return, collision_info, pred_motion, gt_motion, invocations, checks, firstClean, seen,
          repeated, last_kind, mode, collisions_ok, outputs, results_dict, frames,
          trainer_pc, trainer_raised, policy_runs, info_read, frame_path, method, listing,
          remaining, pred_gt_traj, obs_traj, samples, trajs_pc, trajs_raised, trajs_result,
          processes, pool_alive, pool_task, pool_slot, pool_order, mask, mp, all_metrics,
          main_method, ade_argmins, sades_reverse, selected_samples, sade_i, main_pc>>

\* the state of a collision-rejection call (src/collision_rejection.py)
policy_vars == <<family, sample_k, nk, traj_scale, num_peds, pc, raised, num_tries, num_zeros,
                 num_samples_wo_col, all_non_collide_idx, sample_motion_3D,
                 sample_motion_3D_prev, samples_to_return, collision_info, pred_motion,
                 gt_motion, invocations, checks, firstClean, seen, repeated, last_kind>>

\* the state of a pass of the trainer (src/trainer.py)
trainer_vars == <<mode, collisions_ok, outputs, results_dict, frames, trainer_pc,
                  trainer_raised, policy_runs, info_read>>

\* the state of a call of get_trajs (src/bvisualize_outstanding.py)
trajs_vars == <<frame_path, method, listing, remaining, pred_gt_traj, obs_traj, samples,
                trajs_pc, trajs_raised, trajs_result>>

\* the state of a worker pool and of the map call made on it
pool_vars == <<processes, pool_alive, pool_task, pool_slot, pool_order, mask, mp, all_metrics>>

\* the state of one iteration of the method loop of main (src/bvisualize_outstanding.py)
main_vars == <<main_method, ade_argmins, sades_reverse, selected_samples, sade_i, main_pc>>

\* what a collision-rejection call leaves alone when its collision check is one step
outside == <<trainer_vars, trajs_vars, pool_vars, main_vars>>

\* the observers, updated by every sampler invocation
observers == <<invocations, firstClean, seen, repeated, last_kind>>

---------------------------------------------------------------------------
(* Program constants *)

MAX_NUM_SAMPLES == 300

NUM_SAMPLES_PER_FORWARD == 30

A_sample_k == 20

(* Bounds of the model *)

\* indices of a batch whose collision status varies on its own; the
\* remaining indices of the batch collide or not as one block
FreeIdx == 1

\* policy C is run with sample_k in 1..MaxSampleK
MaxSampleK == 2

\* policy B is run with nk chosen so that its budget allows 1..MaxDraws draws
MaxDraws == 3

\* the observers invocations and checks stop counting here
MaxInvocations == 20

TrajScales == {1, 2}

\* agents in the scene: one (the short-circuit) or two
PedCounts == {1, 2}

None == <<>>

\* the "unfilled" slot written by torch.full_like(sample_motion_3D, np.nan)
NaN == [draw |-> 0, idx |-> 0, col |-> FALSE, scaled |-> 0]

Min(a, b) == IF a < b THEN a ELSE b

\* python slicing s[:n], n >= 0
Take(s, n) == SubSeq(s, 1, Min(n, Len(s)))

\* ceil(a / b)
CeilDiv(a, b) == (a + b - 1) \div b

\* observers saturate
Count(c) == IF c < MaxInvocations THEN c + 1 ELSE c

---------------------------------------------------------------------------
(* The sampler: model.inference(...)[0].transpose(0, 1).contiguous() *)

\* the sets of non-colliding indices a batch of n samples may have
CleanSets(n) ==
    { S \cup T : S \in SUBSET (1 .. Min(FreeIdx, n)),
                 T \in { {}, (FreeIdx + 1) .. n } }

\* the tensor that model.inference returns: on the model's device, not yet scaled
RawBatch(t, n, clean) ==
    [i \in 1 .. n |-> [draw |-> t, idx |-> i, col |-> i \notin clean, scaled |-> 0]]

\* lines 31, 95, 142: sample_motion_3D *= traj_scale
InPlaceMul(batch) ==
    [i \in 1 .. Len(batch) |-> [batch[i] EXCEPT !.scaled = @ + 1]]

FreshBatch(t, n, clean) == InPlaceMul(RawBatch(t, n, clean))

\* What the t-th invocation can return, after the in-place `*= traj_scale`:
\*   fresh        values never returned before;
\*   same_raw     the raw values of the previous invocation again;
\*   same_scaled  raw values equal to the previous batch as it is held now,
\*                that is, already multiplied by traj_scale.
SamplerOutputs(t, n) ==
    { [kind |-> "fresh", batch |-> FreshBatch(t, n, c)] : c \in CleanSets(n) }
    \cup (IF sample_motion_3D_prev = None THEN {}
          ELSE { [kind |-> k, batch |-> sample_motion_3D_prev] :
                    k \in {"same_raw", "same_scaled"} })

\* assert torch.any(sample_motion_3D_prev != sample_motion_3D): prev aliases the
\* tensor that `*= traj_scale` changed in place, the new batch is still raw
AssertIdentityFails(out) ==
    /\ sample_motion_3D_prev # None
    /\ \/ out.kind = "same_scaled"
       \/ out.kind = "same_raw" /\ traj_scale = 1

\* is_collision_vec / np.where(~is_collision_vec)[0]
IndicesWoCols(batch) == { i \in 1 .. Len(batch) : ~batch[i].col }

IndicesWCols(batch) == { i \in 1 .. Len(batch) : batch[i].col }

IsClean(s) == ~s.col

IsColliding(s) == s.col

IndexSelectAll(batch) == batch

\* torch.index_select(batch, 0, <indices satisfying keep, ascending>)
IndexSelectClean(batch) == SelectSeq(batch, IsClean)

IndexSelectColliding(batch) == SelectSeq(batch, IsColliding)

\* observer update: first clean sample seen at each index
FirstCleanAfter(batch) ==
    [i \in 1 .. Len(batch) |->
        IF i <= Len(firstClean) /\ firstClean[i] # NaN THEN firstClean[i]
        ELSE IF ~batch[i].col THEN batch[i] ELSE NaN]

StatusesOf(batch) ==
    { IF batch[i].col THEN "colliding" ELSE "clean" : i \in 1 .. Len(batch) }

\* what every sampler invocation does to the observers
Observe(out) ==
    /\ invocations' = Count(invocations)
    /\ firstClean' = FirstCleanAfter(out.batch)
    /\ seen' = seen \cup StatusesOf(out.batch)
    /\ repeated' = (repeated \/ out.kind # "fresh")
    /\ last_kind' = out.kind

---------------------------------------------------------------------------
(* Initial states: one call of run_model_w_col_rej *)

SampleKsAB == (1 .. MaxSampleK) \cup {A_sample_k - 1, A_sample_k, A_sample_k + 1}

NksA == (1 .. MaxSampleK) \cup {A_sample_k - 1, A_sample_k, A_sample_k + 1}

NksB == { MAX_NUM_SAMPLES \div d : d \in 1 .. MaxDraws } \cup { MAX_NUM_SAMPLES + 1 }

Configs ==
    { [family |-> "dlow_nk", sample_k |-> k, nk |-> n] : k \in SampleKsAB, n \in NksA }
    \cup { [family |-> "dlow", sample_k |-> k, nk |-> n] :
              k \in {A_sample_k}, n \in NksB }
    \cup { [family |-> "dlow", sample_k |-> n, nk |-> n] : n \in NksB }
    \cup { [family |-> f, sample_k |-> k, nk |-> A_sample_k] :
              f \in {"agentformer", "other"}, k \in 1 .. MaxSampleK }

\* no worker pool exists
PoolIdle ==
    /\ processes = 0
    /\ pool_alive = 0
    /\ pool_task = <<>>
    /\ pool_slot = <<>>
    /\ pool_order = <<>>
    /\ mask = None
    /\ mp = FALSE
    /\ all_metrics = None

\* main is not running
MainIdle ==
    /\ main_method = ""
    /\ ade_argmins = <<>>
    /\ sades_reverse = <<>>
    /\ selected_samples = {}
    /\ sade_i = 0
    /\ main_pc = "idle"

\* no pass of the trainer is under way
TrainerIdle ==
    /\ mode = "test"
    /\ collisions_ok = "false"
    /\ outputs = <<>>
    /\ results_dict = None
    /\ frames = None
    /\ trainer_pc = "steps"
    /\ trainer_raised = ""
    /\ policy_runs = 0
    /\ info_read = FALSE

\* no call of get_trajs is under way
TrajsIdle ==
    /\ frame_path = ""
    /\ method = ""
    /\ listing = None
    /\ remaining = None
    /\ pred_gt_traj = None
    /\ obs_traj = None
    /\ samples = <<>>
    /\ trajs_pc = "idle"
    /\ trajs_raised = None
    /\ trajs_result = None

Init ==
    /\ TrainerIdle
    /\ TrajsIdle
    /\ PoolIdle
    /\ MainIdle
    /\ \E c \in Configs :
          /\ family = c.family
          /\ sample_k = c.sample_k
          /\ nk = c.nk
    /\ traj_scale \in TrajScales
    /\ num_peds \in PedCounts
    /\ pc = "start"
    /\ raised = ""
    /\ num_tries = 0
    /\ num_zeros = 0
    /\ num_samples_wo_col = 0
    /\ all_non_collide_idx = {}
    /\ sample_motion_3D = None
    /\ sample_motion_3D_prev = None
    /\ samples_to_return = None
    /\ collision_info = None
    /\ pred_motion = ""
    /\ gt_motion = None
    /\ invocations = 0
    /\ checks = 0
    /\ firstClean = <<>>
    /\ seen = {}
    /\ repeated = FALSE
    /\ last_kind = ""

params == <<family, sample_k, nk, traj_scale, num_peds>>

\* the locals of the policies
locals == <<num_tries, num_zeros, num_samples_wo_col, all_non_collide_idx, sample_motion_3D,
            sample_motion_3D_prev, samples_to_return, collision_info>>

\* what the call hands back besides collision_info
returns == <<pred_motion, gt_motion>>

---------------------------------------------------------------------------
(* Tensors: where they live and how often they were scaled *)

\* the `device` argument: the accelerator the model runs on
ModelDevice == "cuda"

\* torch.stack(data['fut_motion_3D'], dim=0): the batch as the loader built it
FutMotion3D == [device |-> "cpu", scaled |-> 0]

To(t, d) == [t EXCEPT !.device = d]

Mul(t) == [t EXCEPT !.scaled = @ + 1]

Cpu_Stay(t) == t

\* tensor.cpu()
Cpu(t) == [t EXCEPT !.device = "cpu"]

\* lines 32, 119, 182 with the .cpu() of lines 32, 121, 184
GtMotion3D == Cpu(Mul(To(FutMotion3D, ModelDevice)))

\* the samples of a policy are selected from batches on the model's device
\* (lines 48-51, 90, 126, 176-177); lines 38, 58, 121, 184 return them .cpu()
PredMotion == Cpu([device |-> ModelDevice]).device

---------------------------------------------------------------------------
(* run_model_w_col_rej: the isinstance chain *)

PolicyOf_NoIdTest(f) ==
    IF f \in {"dlow_nk", "dlow"} THEN "B"
    ELSE IF f = "agentformer" THEN "C"
    ELSE "none"

PolicyOf(f) ==
    IF f = "dlow_nk" THEN "A"
    ELSE IF f = "dlow" THEN "B"
    ELSE IF f = "agentformer" THEN "C"
    ELSE "none"

Dispatch ==
    /\ pc = "start"
    /\ IF PolicyOf(family) = "none"
       THEN /\ pc' = "raised"
            /\ raised' = "NotImplementedError"
       ELSE /\ pc' = PolicyOf(family)
            /\ raised' = raised
    /\ UNCHANGED <<outside, params, locals, returns, checks, observers>>

---------------------------------------------------------------------------
(* Policy A: col_rej_one_run_only *)

A_CollisionInfo(batch) ==
    IF A_sample_k - Len(IndexSelectClean(batch)) <= 0
    THEN None
    ELSE <<num_peds, A_sample_k - Len(IndexSelectClean(batch))>>

A_SamplesToReturn(batch) ==
    Take(IndexSelectClean(batch) \o IndexSelectColliding(batch), A_sample_k)

A_Run ==
    /\ pc = "A"
    /\ \E out \in SamplerOutputs(1, nk) :
          /\ Observe(out)
          /\ sample_motion_3D' = out.batch
          /\ IF num_peds = 1
             THEN /\ samples_to_return' = Take(out.batch, A_sample_k)
                  /\ collision_info' = None
                  /\ checks' = checks
             ELSE /\ samples_to_return' = A_SamplesToReturn(out.batch)
                  /\ collision_info' = A_CollisionInfo(out.batch)
                  /\ checks' = Count(checks)
    /\ pred_motion' = PredMotion
    /\ gt_motion' = GtMotion3D
    /\ pc' = "done"
    /\ UNCHANGED <<outside, params, raised, num_tries, num_zeros, num_samples_wo_col,
                   all_non_collide_idx, sample_motion_3D_prev>>

---------------------------------------------------------------------------
(* Policy B: per_sample_col_rej *)

\* line 73
B_LoopCond == num_samples_wo_col < nk

B_BudgetExhausted_Strict == num_tries * nk > MAX_NUM_SAMPLES

\* line 74
B_BudgetExhausted == num_tries * nk >= MAX_NUM_SAMPLES

\* lines 92 and 141: num_tries += 1
NextTries(n) == n + 1

\* B_Exhaust without the break of line 79
B_Exhaust_NoBreak ==
    /\ pc = "B"
    /\ B_LoopCond
    /\ B_BudgetExhausted
    /\ collision_info' = <<num_peds, nk - num_samples_wo_col>>
    /\ samples_to_return' = sample_motion_3D_prev
    /\ pc' = "B"
    /\ UNCHANGED <<outside, params, raised, num_tries, num_zeros, num_samples_wo_col,
                   all_non_collide_idx, sample_motion_3D, sample_motion_3D_prev,
                   returns, checks, observers>>

\* lines 74-79: the budget test at the top of the loop body
B_Exhaust ==
    /\ pc = "B"
    /\ B_LoopCond
    /\ B_BudgetExhausted
    /\ collision_info' = <<num_peds, nk - num_samples_wo_col>>
    /\ samples_to_return' = sample_motion_3D_prev
    /\ pc' = "B_ret"
    /\ UNCHANGED <<outside, params, raised, num_tries, num_zeros, num_samples_wo_col,
                   all_non_collide_idx, sample_motion_3D, sample_motion_3D_prev,
                   returns, checks, observers>>

\* lines 89-90: slot i of the accumulator, which is created on the first draw
B_Accumulator(i) ==
    IF samples_to_return = None THEN NaN ELSE samples_to_return[i]

B_IndicesToUpdate_Overwrite(batch, i) == ~batch[i].col

\* line 114: i is in set(indices_wo_cols) - all_non_collide_idx
B_IndicesToUpdate(batch, i) == ~batch[i].col /\ i \notin all_non_collide_idx

\* line 115: samples_to_return[indices_to_update] = sample_motion_3D[indices_to_update]
B_Updated(batch) ==
    [i \in 1 .. Len(batch) |->
        IF B_IndicesToUpdate(batch, i) THEN batch[i] ELSE B_Accumulator(i)]

\* lines 89-90 alone: no index is updated (the `continue` of line 112)
B_NotUpdated(batch) == [i \in 1 .. Len(batch) |-> B_Accumulator(i)]

\* lines 81-117: one iteration that draws
B_Draw ==
    /\ pc = "B"
    /\ B_LoopCond
    /\ ~B_BudgetExhausted
    /\ \E out \in SamplerOutputs(NextTries(num_tries), nk) :
          /\ Observe(out)
          /\ sample_motion_3D' = out.batch
          /\ IF AssertIdentityFails(out)
             THEN /\ pc' = "raised"
                  /\ raised' = "AssertionError"
                  /\ UNCHANGED <<num_tries, num_samples_wo_col, all_non_collide_idx,
                                 sample_motion_3D_prev, samples_to_return, checks>>
             ELSE /\ raised' = raised
                  /\ sample_motion_3D_prev' = out.batch
                  /\ num_tries' = NextTries(num_tries)
                  /\ IF num_peds = 1
                     THEN /\ samples_to_return' = out.batch
                          /\ pc' = "B_ret"
                          /\ UNCHANGED <<num_samples_wo_col, all_non_collide_idx, checks>>
                     ELSE /\ checks' = Count(checks)
                          /\ num_samples_wo_col' = Cardinality(IndicesWoCols(out.batch))
                          /\ pc' = "B"
                          /\ IF IndicesWoCols(out.batch) = {}
                             THEN /\ samples_to_return' = B_NotUpdated(out.batch)
                                  /\ all_non_collide_idx' = all_non_collide_idx
                             ELSE /\ samples_to_return' = B_Updated(out.batch)
                                  /\ all_non_collide_idx' =
                                        all_non_collide_idx \cup IndicesWoCols(out.batch)
    /\ UNCHANGED <<outside, params, num_zeros, collision_info, returns>>

\* line 73: the while condition is false
B_LoopExit ==
    /\ pc = "B"
    /\ ~B_LoopCond
    /\ pc' = "B_ret"
    /\ UNCHANGED <<outside, params, raised, locals, returns, checks, observers>>

\* lines 119-121
B_Return ==
    /\ pc = "B_ret"
    /\ pred_motion' = PredMotion
    /\ gt_motion' = GtMotion3D
    /\ pc' = "done"
    /\ UNCHANGED <<outside, params, raised, locals, checks, observers>>

---------------------------------------------------------------------------
(* Policy C: col_rej *)

\* line 133
C_LoopCond == Len(samples_to_return) < sample_k

C_BudgetExhausted_Strict(tries) == tries * NUM_SAMPLES_PER_FORWARD > MAX_NUM_SAMPLES

\* line 161, evaluated after num_tries += 1
C_BudgetExhausted(tries) == tries * NUM_SAMPLES_PER_FORWARD >= MAX_NUM_SAMPLES

\* torch.max of a non-empty index tensor
MaxOf(S) == CHOOSE x \in S : \A y \in S : y <= x

NonCollideIdx_OneBased(batch) == IndicesWoCols(batch)

\* lines 158 and 173: non_collide_idx, the positions counted from 0
NonCollideIdx(batch) == { i - 1 : i \in IndicesWoCols(batch) }

\* lines 174-175
C_IndexAssertsHold(batch) ==
    /\ MaxOf(NonCollideIdx(batch)) < Len(batch)
    /\ 0 <= MaxOf(NonCollideIdx(batch))

\* one of the assertions of lines 174-175 is evaluated and fails
C_IndexAssertFails(batch) ==
    /\ num_peds > 1
    /\ IndicesWoCols(batch) # {}
    /\ ~C_IndexAssertsHold(batch)

C_Appended_InFront(buffer, batch) == Take(IndexSelectClean(batch) \o buffer, sample_k)

\* lines 176-177: torch.cat([samples_to_return, sample_motion_3D_non_colliding])[:sample_k]
C_Appended(buffer, batch) == Take(buffer \o IndexSelectClean(batch), sample_k)

C_Padded_LastDrawOnly(buffer, batch) == Take(batch, sample_k)

C_Padded_BufferOnly(buffer, batch) == buffer

\* line 166: torch.cat([samples_to_return, sample_motion_3D])[:sample_k]
C_Padded(buffer, batch) == Take(buffer \o batch, sample_k)

\* lines 134-177: one iteration
C_Draw ==
    /\ pc = "C"
    /\ C_LoopCond
    /\ \E out \in SamplerOutputs(NextTries(num_tries), NUM_SAMPLES_PER_FORWARD) :
          /\ Observe(out)
          /\ sample_motion_3D' = out.batch
          /\ IF AssertIdentityFails(out)
             THEN /\ pc' = "raised"
                  /\ raised' = "AssertionError"
                  /\ UNCHANGED <<num_tries, num_zeros, sample_motion_3D_prev,
                                 samples_to_return, collision_info, checks>>
             ELSE /\ raised' = IF C_IndexAssertFails(out.batch) THEN "AssertionError"
                                 ELSE raised
                  /\ sample_motion_3D_prev' = out.batch
                  /\ num_tries' = NextTries(num_tries)
                  /\ IF num_peds = 1
                     THEN /\ samples_to_return' = Take(out.batch, sample_k)
                          /\ pc' = "C_ret"
                          /\ UNCHANGED <<num_zeros, collision_info, checks>>
                     ELSE /\ checks' = Count(checks)
                          /\ IF IndicesWoCols(out.batch) = {}
                             THEN /\ num_zeros' = num_zeros + 1
                                  /\ IF C_BudgetExhausted(NextTries(num_tries))
                                     THEN /\ collision_info' =
                                               <<num_peds, sample_k - Len(samples_to_return)>>
                                          /\ samples_to_return' =
                                               C_Padded(samples_to_return, out.batch)
                                          /\ pc' = "C_ret"
                                     ELSE /\ pc' = "C"
                                          /\ UNCHANGED <<collision_info, samples_to_return>>
                             ELSE IF C_IndexAssertFails(out.batch)
                             THEN /\ pc' = "raised_index"
                                  /\ UNCHANGED <<num_zeros, collision_info,
                                                 samples_to_return>>
                             ELSE /\ samples_to_return' =
                                       C_Appended(samples_to_return, out.batch)
                                  /\ pc' = "C"
                                  /\ UNCHANGED <<num_zeros, collision_info>>
    /\ UNCHANGED <<outside, params, num_samples_wo_col, all_non_collide_idx, returns>>

\* line 133: the while condition is false
C_LoopExit ==
    /\ pc = "C"
    /\ ~C_LoopCond
    /\ pc' = "C_ret"
    /\ UNCHANGED <<outside, params, raised, locals, returns, checks, observers>>

\* lines 179-184: an empty buffer stops in the debugger instead of returning
C_Return ==
    /\ pc = "C_ret"
    /\ IF Len(samples_to_return) = 0
       THEN /\ pc' = "debugger"
            /\ UNCHANGED returns
       ELSE /\ pred_motion' = PredMotion
            /\ gt_motion' = GtMotion3D
            /\ pc' = "done"
    /\ UNCHANGED <<outside, params, raised, locals, checks, observers>>

---------------------------------------------------------------------------

Next ==
    \/ Dispatch
    \/ A_Run
    \/ B_Exhaust
    \/ B_Draw
    \/ B_LoopExit
    \/ B_Return
    \/ C_Draw
    \/ C_LoopExit
    \/ C_Return

Spec == Init /\ [][Next]_vars

\* the call is one sequential thread of control: it always takes its next step
FairSpec == Spec /\ WF_vars(Next)

---------------------------------------------------------------------------
(* AgentFormerTrainer (src/trainer.py): the steps of a pass and _epoch_end. *)
(* A metric value is an integer (a fixed-point reading); an aggregated     *)
(* value is the exact quotient <<numerator, denominator>>.                 *)

\* scenes per pass
MaxScenes == 2

Modes == {"train", "val", "test"}

CollisionsOkSettings == {"true", "false", "absent"}

\* agents of a scene: gt_motion.shape[0]
AgentCounts == {1, 3}

\* second component of a collision_info that is not None
ResidualCounts == {1, 2}

\* stats_func.keys(), in order; a key is the sequence of its parts
StatsKeys == << <<"ADE", "_marginal">>, <<"FDE", "_marginal">>, <<"CR", "_mean">>,
                <<"ADE", "_joint">>, <<"FDE", "_joint">> >>

\* what eval_one_seq2 computes for a scene, one value per key
MetricTuples == { <<1, 2, 0, 3, 4>>, <<3, 5, 1, 3, 6>> }

TotSamplesKey == <<"tot_samples_w_col">>

TotFramesKey == <<"tot_frames_w_col">>

\* no collision-rejection call is under way
PolicyIdle ==
    /\ family = "agentformer"
    /\ sample_k = A_sample_k
    /\ nk = A_sample_k
    /\ traj_scale = 1
    /\ num_peds = 1
    /\ pc = "start"
    /\ raised = ""
    /\ num_tries = 0
    /\ num_zeros = 0
    /\ num_samples_wo_col = 0
    /\ all_non_collide_idx = {}
    /\ sample_motion_3D = None
    /\ sample_motion_3D_prev = None
    /\ samples_to_return = None
    /\ collision_info = None
    /\ pred_motion = ""
    /\ gt_motion = None
    /\ invocations = 0
    /\ checks = 0
    /\ firstClean = <<>>
    /\ seen = {}
    /\ repeated = FALSE
    /\ last_kind = ""

TrainerInit ==
    /\ PolicyIdle
    /\ TrajsIdle
    /\ PoolIdle
    /\ MainIdle
    /\ mode \in Modes
    /\ collisions_ok \in CollisionsOkSettings
    /\ outputs = <<>>
    /\ results_dict = None
    /\ frames = None
    /\ trainer_pc = "steps"
    /\ trainer_raised = ""
    /\ policy_runs = 0
    /\ info_read = FALSE

\* self.cfg.get('collisions_ok', True)
CfgGetCollisionsOk == IF collisions_ok = "absent" THEN TRUE ELSE collisions_ok = "true"

\* the dict returned by _step (lines 124-125): it has no 'num_samples_w_col'
StepOutput(n, m) ==
    [gt_agents |-> n, metrics |-> m, keys |-> {"gt_motion", "pred_motion", "obs_motion"},
     num_samples_w_col |-> None]

\* the dict returned by run_model_w_col_rej (collision_rejection.py lines 20-21)
RejectionOutput(n, m, info) ==
    [gt_agents |-> n, metrics |-> m,
     keys |-> {"gt_motion", "pred_motion", "obs_motion", "num_samples_w_col"},
     num_samples_w_col |-> info]

\* the collision_info values a policy returns for a scene of n agents
CollisionInfos(n) == {None} \cup { <<n, c>> : c \in ResidualCounts }

\* lines 127-130
TrainingStep ==
    /\ mode = "train"
    /\ trainer_pc = "steps"
    /\ Len(outputs) < MaxScenes
    /\ \E n \in AgentCounts, m \in MetricTuples :
          outputs' = Append(outputs, StepOutput(n, m))
    /\ UNCHANGED <<policy_vars, trajs_vars, pool_vars, main_vars, mode, collisions_ok, results_dict, frames, trainer_pc,
                   trainer_raised, policy_runs, info_read>>

\* lines 132-133
ValidationStep ==
    /\ mode = "val"
    /\ trainer_pc = "steps"
    /\ Len(outputs) < MaxScenes
    /\ \E n \in AgentCounts, m \in MetricTuples :
          outputs' = Append(outputs, StepOutput(n, m))
    /\ UNCHANGED <<policy_vars, trajs_vars, pool_vars, main_vars, mode, collisions_ok, results_dict, frames, trainer_pc,
                   trainer_raised, policy_runs, info_read>>

\* lines 135-162: the rejection call either returns or ends the pass with the
\* exception it raised
TestStep ==
    /\ mode = "test"
    /\ trainer_pc = "steps"
    /\ Len(outputs) < MaxScenes
    /\ \E n \in AgentCounts, m \in MetricTuples :
          IF CfgGetCollisionsOk
          THEN /\ outputs' = Append(outputs, StepOutput(n, m))
               /\ UNCHANGED <<trainer_pc, trainer_raised, policy_runs>>
          ELSE /\ policy_runs' = policy_runs + 1
               /\ \/ /\ \E info \in CollisionInfos(n) :
                           outputs' = Append(outputs, RejectionOutput(n, m, info))
                     /\ UNCHANGED <<trainer_pc, trainer_raised>>
                  \/ /\ trainer_pc' = "raised"
                     /\ trainer_raised' = "AssertionError"
                     /\ outputs' = outputs
    /\ UNCHANGED <<policy_vars, trajs_vars, pool_vars, main_vars, mode, collisions_ok, results_dict, frames, info_read>>

RECURSIVE SumSeq(_)
\* np.sum of a sequence
SumSeq(s) == IF s = <<>> THEN 0 ELSE Head(s) + SumSeq(Tail(s))

\* line 183
NumAgentPerSeq == [i \in 1 .. Len(outputs) |-> outputs[i].gt_agents]

\* line 186: the k-th element of zip(*all_metrics)
Values(k) == [i \in 1 .. Len(outputs) |-> outputs[i].metrics[k]]

\* line 190: values * num_agent_per_seq, element by element
Times(a, b) == [i \in 1 .. Len(a) |-> a[i] * b[i]]

\* `part in key`
Contains(key, part) == \E i \in 1 .. Len(key) : key[i] = part

IsSequenceMetric_Never(key) == FALSE

\* line 187
IsSequenceMetric(key) == Contains(key, "_joint") \/ Contains(key, "CR")

\* lines 187-190
Aggregate(k) ==
    IF IsSequenceMetric(StatsKeys[k])
    THEN <<SumSeq(Values(k)), Len(Values(k))>>
    ELSE <<SumSeq(Times(Values(k), NumAgentPerSeq)), SumSeq(NumAgentPerSeq)>>

\* lines 185-191
MetricResults ==
    [key \in { StatsKeys[k] : k \in 1 .. Len(StatsKeys) } |->
        Aggregate(CHOOSE k \in 1 .. Len(StatsKeys) : StatsKeys[k] = key)]

\* lines 194-195 and 223
ReadsCollisionInfo == ~CfgGetCollisionsOk /\ mode = "test"

TotSamplesWCol_AgentCounts ==
    SumSeq([i \in 1 .. Len(outputs) |->
               IF outputs[i].num_samples_w_col = None THEN 0
               ELSE outputs[i].num_samples_w_col[1]])

\* lines 196-197
TotSamplesWCol ==
    SumSeq([i \in 1 .. Len(outputs) |->
               IF outputs[i].num_samples_w_col = None THEN 0
               ELSE outputs[i].num_samples_w_col[2]])

\* line 198
TotFramesWCol ==
    SumSeq([i \in 1 .. Len(outputs) |->
               IF outputs[i].num_samples_w_col = None THEN 0 ELSE 1])

\* lines 199-200
TotResults ==
    [key \in {TotSamplesKey, TotFramesKey} |->
        IF key = TotSamplesKey THEN <<TotSamplesWCol, 1>> ELSE <<TotFramesWCol, 1>>]

RECURSIVE IdxsFrom(_)
\* line 224: the indices i >= from with a collision_info that is not None
IdxsFrom(from) ==
    IF from > Len(outputs) THEN <<>>
    ELSE IF outputs[from].num_samples_w_col # None THEN <<from>> \o IdxsFrom(from + 1)
    ELSE IdxsFrom(from + 1)

IdxsToPlot == IdxsFrom(1)

\* line 226: one row per scene of idxs_to_plot: the scene, then its collision_info
Frames ==
    [j \in 1 .. Len(IdxsToPlot) |->
        <<IdxsToPlot[j]>> \o outputs[IdxsToPlot[j]].num_samples_w_col]

\* lines 164-241, for train_epoch_end, validation_epoch_end and test_epoch_end
EpochEnd ==
    /\ trainer_pc = "steps"
    /\ IF outputs = <<>>
       THEN \* line 180: nothing to unpack
            /\ trainer_pc' = "raised"
            /\ trainer_raised' = "ValueError"
            /\ UNCHANGED <<results_dict, frames, info_read>>
       ELSE IF ReadsCollisionInfo
                 /\ \E i \in 1 .. Len(outputs) : "num_samples_w_col" \notin outputs[i].keys
       THEN \* line 196 on a dict without the entry
            /\ trainer_pc' = "raised"
            /\ trainer_raised' = "KeyError"
            /\ info_read' = TRUE
            /\ UNCHANGED <<results_dict, frames>>
       ELSE /\ results_dict' = IF ReadsCollisionInfo THEN MetricResults @@ TotResults
                               ELSE MetricResults
            /\ frames' = IF ReadsCollisionInfo THEN Frames ELSE None
            /\ info_read' = ReadsCollisionInfo
            /\ trainer_pc' = "logged"
            /\ trainer_raised' = trainer_raised
    /\ UNCHANGED <<policy_vars, trajs_vars, pool_vars, main_vars, mode, collisions_ok, outputs, policy_runs>>

TrainerNext ==
    \/ TrainingStep
    \/ ValidationStep
    \/ TestStep
    \/ EpochEnd

TrainerSpec == TrainerInit /\ [][TrainerNext]_vars

---------------------------------------------------------------------------
(* get_trajs (src/bvisualize_outstanding.py): load the arrays of one frame. *)
(* A file name is the sequence of its parts; an array is the record of     *)
(* what the function looks at: its number of timesteps (shape[0]).         *)

\* line 41
NUM_SAMPLES == 20

\* line 55
GT_TIMESTEPS == 12

\* lines 42 and 54
OBS_TIMESTEPS == 8

FramePaths == {"seq_a/frame_000010", "seq_b/frame_000020"}

Methods == {"agentformer", "af_mg1_jr1_w10", "sgan"}

\* how many sample files a frame directory holds
SampleFileCounts == {0, NUM_SAMPLES - 1, NUM_SAMPLES, NUM_SAMPLES + 1}

\* timesteps found in a ground-truth file and in an observation file
GtFileSteps == {GT_TIMESTEPS, GT_TIMESTEPS - 1}

ObsFileSteps == {OBS_TIMESTEPS, OBS_TIMESTEPS - 1}

FileClasses == {"gt", "obs", "sample", "other"}

\* the name of a file of each class, as trainer.py (save_trajectories) writes them
FileName(class) ==
    IF class = "gt" THEN <<"gt", ".txt">>
    ELSE IF class = "obs" THEN <<"obs", ".txt">>
    ELSE IF class = "sample" THEN <<"sample", "_", "000", ".txt">>
    ELSE <<"notes", ".txt">>

\* the frame directories: how many files of each class, and what the
\* ground-truth and observation files hold
Listings ==
    { [count |-> [c \in FileClasses |->
                     IF c = "gt" THEN g ELSE IF c = "obs" THEN o
                     ELSE IF c = "sample" THEN n ELSE x],
       gt_steps |-> gs, obs_steps |-> os] :
         g \in {0, 1}, o \in {0, 1}, n \in SampleFileCounts, x \in {0, 1},
         gs \in GtFileSteps, os \in ObsFileSteps }

TrajsInit ==
    /\ PolicyIdle
    /\ TrainerIdle
    /\ PoolIdle
    /\ MainIdle
    /\ frame_path \in FramePaths
    /\ method \in Methods
    /\ listing \in Listings
    /\ remaining = listing.count
    /\ pred_gt_traj = None
    /\ obs_traj = None
    /\ samples = <<>>
    /\ trajs_pc = "glob"
    /\ trajs_raised = None
    /\ trajs_result = None

\* `part in str(filename.name)`
NameHas(name, part) == \E i \in 1 .. Len(name) : name[i] = part

\* line 29: method == 'agentformer' or 'af' in method
IsAfMethod == method = "agentformer" \/ method = "af_mg1_jr1_w10"

\* lines 22-39: one iteration of the loop over frame_path.glob('*.txt'), which
\* yields the files in no particular order
Trajs_LoadFile ==
    /\ trajs_pc = "glob"
    /\ \E c \in FileClasses :
          /\ remaining[c] > 0
          /\ remaining' = [remaining EXCEPT ![c] = @ - 1]
          /\ IF NameHas(FileName(c), "gt")
             THEN /\ pred_gt_traj' = [timesteps |-> listing.gt_steps]
                  /\ UNCHANGED <<obs_traj, samples>>
             ELSE IF NameHas(FileName(c), "obs")
             THEN /\ obs_traj' = [timesteps |-> listing.obs_steps, reversed |-> IsAfMethod]
                  /\ UNCHANGED <<pred_gt_traj, samples>>
             ELSE IF NameHas(FileName(c), "sample")
             THEN /\ samples' = Append(samples, [timesteps |-> GT_TIMESTEPS])
                  /\ UNCHANGED <<pred_gt_traj, obs_traj>>
             ELSE UNCHANGED <<pred_gt_traj, obs_traj, samples>>
    /\ UNCHANGED <<policy_vars, trainer_vars, pool_vars, main_vars, frame_path, method, listing, trajs_pc,
                   trajs_raised, trajs_result>>

AssertNumSamples_AtMost(n) == n <= NUM_SAMPLES

\* line 41: len(samples) == 20
AssertNumSamples(n) == n = NUM_SAMPLES

\* lines 40-42: the assertions after the loop, then the test of the observation
Trajs_Checks ==
    /\ trajs_pc = "glob"
    /\ \A c \in FileClasses : remaining[c] = 0
    /\ IF pred_gt_traj = None
       THEN /\ trajs_pc' = "raised"
            /\ trajs_raised' = [type |-> "AssertionError",
                                message |-> <<"gt and obs should be loaded from", frame_path>>]
       ELSE IF ~AssertNumSamples(Len(samples))
       THEN /\ trajs_pc' = "raised"
            /\ trajs_raised' = [type |-> "AssertionError",
                                message |-> <<"20 samples should be loaded from", frame_path>>]
       ELSE /\ trajs_pc' = IF obs_traj = None \/ obs_traj.timesteps # OBS_TIMESTEPS
                           THEN "debugger" ELSE "asserts"
            /\ trajs_raised' = trajs_raised
    /\ UNCHANGED <<policy_vars, trainer_vars, pool_vars, main_vars, frame_path, method, listing, remaining,
                   pred_gt_traj, obs_traj, samples, trajs_result>>

\* lines 43-53, once the debugger is left: the observation is loaded from the
\* agentformer folder, which may lack the file
Trajs_Fallback ==
    /\ trajs_pc = "debugger"
    /\ \/ /\ \E os \in ObsFileSteps : obs_traj' = [timesteps |-> os, reversed |-> TRUE]
          /\ trajs_pc' = "asserts"
          /\ trajs_raised' = trajs_raised
       \/ /\ trajs_pc' = "raised"
          /\ trajs_raised' = [type |-> "OSError", message |-> <<"obs.txt not found">>]
          /\ obs_traj' = obs_traj
    /\ UNCHANGED <<policy_vars, trainer_vars, pool_vars, main_vars, frame_path, method, listing, remaining,
                   pred_gt_traj, samples, trajs_result>>

\* lines 54-57
Trajs_Return ==
    /\ trajs_pc = "asserts"
    /\ IF obs_traj.timesteps # OBS_TIMESTEPS \/ pred_gt_traj.timesteps # GT_TIMESTEPS
       THEN /\ trajs_pc' = "raised"
            /\ trajs_raised' = [type |-> "AssertionError", message |-> <<>>]
            /\ trajs_result' = trajs_result
       ELSE /\ trajs_pc' = "returned"
            /\ trajs_result' = [pred_fake_traj |-> samples, pred_gt_traj |-> pred_gt_traj,
                                obs_traj |-> obs_traj]
            /\ trajs_raised' = trajs_raised
    /\ UNCHANGED <<policy_vars, trainer_vars, pool_vars, main_vars, frame_path, method, listing, remaining,
                   pred_gt_traj, obs_traj, samples>>

TrajsNext ==
    \/ Trajs_LoadFile
    \/ Trajs_Checks
    \/ Trajs_Fallback
    \/ Trajs_Return

TrajsSpec == TrajsInit /\ [][TrajsNext]_vars

---------------------------------------------------------------------------
(* The collision check of policy B, step by step: the pool of lines 105-106 *)
(* and its workers, which finish their tasks in any order.  The batches    *)
(* are small enough for pool.map to make one task of every sample.          *)

\* policy B is run with nk in 2..PoolNk
PoolNk == 3

\* draws followed per call
PoolDraws == 2

\* multiprocessing.cpu_count()
CpuCounts == {1, 2}

\* a slot of the result list that no worker has written
NoResult == [draw |-> 0, idx |-> 0, col |-> TRUE]

\* check_collision_per_sample_no_gt(sample): whether the sample has a collision,
\* tagged with the sample it was computed for
CheckCollision(sample) == [draw |-> sample.draw, idx |-> sample.idx, col |-> sample.col]

Running == { i \in DOMAIN pool_task : pool_task[i] = "running" }

Queued == { i \in DOMAIN pool_task : pool_task[i] = "queued" }

MapResultSlot_ByCompletion(i, finished) == finished + 1

\* pool.map: the result of the i-th task goes to the i-th place of the list,
\* however many tasks finished before it
MapResultSlot(i, finished) == i

MapReady_AnyResult == \E i \in DOMAIN pool_task : pool_task[i] = "done"

\* pool.map returns when every task has delivered its result
MapReady == \A i \in DOMAIN pool_task : pool_task[i] = "done"

\* Pool(processes=n): n worker processes are started
PoolStarted(n) ==
    /\ processes' = n
    /\ pool_alive' = n

\* the map call hands out one task per item
TasksSubmitted(n) ==
    /\ pool_task' = [i \in 1 .. n |-> "queued"]
    /\ pool_slot' = [i \in 1 .. n |-> NoResult]
    /\ pool_order' = <<>>

\* an idle worker takes the task at the head of the task queue
TaskTaken(i) ==
    /\ i \in Queued
    /\ \A j \in Queued : i <= j
    /\ Cardinality(Running) < pool_alive
    /\ pool_task' = [pool_task EXCEPT ![i] = "running"]

\* the worker running task i delivers its result
TaskFinished(i, result) ==
    /\ i \in Running
    /\ pool_task' = [pool_task EXCEPT ![i] = "done"]
    /\ pool_slot' = [pool_slot EXCEPT ![MapResultSlot(i, Len(pool_order))] = result]
    /\ pool_order' = Append(pool_order, i)

PoolInit ==
    /\ TrainerIdle
    /\ TrajsIdle
    /\ PoolIdle
    /\ MainIdle
    /\ family = "dlow"
    /\ nk \in 2 .. PoolNk
    /\ sample_k = nk
    /\ traj_scale \in TrajScales
    /\ num_peds \in PedCounts
    /\ pc = "start"
    /\ raised = ""
    /\ num_tries = 0
    /\ num_zeros = 0
    /\ num_samples_wo_col = 0
    /\ all_non_collide_idx = {}
    /\ sample_motion_3D = None
    /\ sample_motion_3D_prev = None
    /\ samples_to_return = None
    /\ collision_info = None
    /\ pred_motion = ""
    /\ gt_motion = None
    /\ invocations = 0
    /\ checks = 0
    /\ firstClean = <<>>
    /\ seen = {}
    /\ repeated = FALSE
    /\ last_kind = ""

\* what the steps of the pool leave alone
pool_frame == <<trainer_vars, trajs_vars, main_vars, mp, all_metrics, params, raised,
               num_tries, num_zeros, sample_motion_3D, sample_motion_3D_prev, collision_info,
               returns, observers>>

\* lines 81-100: the draw, up to the collision check
PB_Sample ==
    /\ pc = "B"
    /\ B_LoopCond
    /\ ~B_BudgetExhausted
    /\ num_tries < PoolDraws
    /\ \E out \in SamplerOutputs(NextTries(num_tries), nk) :
          /\ Observe(out)
          /\ sample_motion_3D' = out.batch
          /\ IF AssertIdentityFails(out)
             THEN /\ pc' = "raised"
                  /\ raised' = "AssertionError"
                  /\ UNCHANGED <<num_tries, sample_motion_3D_prev, samples_to_return>>
             ELSE /\ raised' = raised
                  /\ sample_motion_3D_prev' = out.batch
                  /\ num_tries' = NextTries(num_tries)
                  /\ IF num_peds = 1
                     THEN /\ samples_to_return' = out.batch
                          /\ pc' = "B_ret"
                     ELSE /\ samples_to_return' = B_NotUpdated(out.batch)
                          /\ pc' = "B_pool"
    /\ UNCHANGED <<trainer_vars, trajs_vars, main_vars, pool_vars, params, num_zeros,
                   num_samples_wo_col, all_non_collide_idx, collision_info, returns, checks>>

\* line 105: with multiprocessing.Pool(processes=min(NUM_SAMPLES_PER_FORWARD, cpu_count()))
PoolEnter ==
    /\ pc = "B_pool"
    /\ \E cpu_count \in CpuCounts : PoolStarted(Min(nk, cpu_count))
    /\ pc' = "B_map"
    /\ UNCHANGED <<pool_frame, pool_task, pool_slot, pool_order, mask, num_samples_wo_col,
                   all_non_collide_idx, samples_to_return, checks>>

\* line 106: pool.map is called with the samples of the batch
PoolMap ==
    /\ pc = "B_map"
    /\ TasksSubmitted(Len(sample_motion_3D))
    /\ checks' = Count(checks)
    /\ pc' = "B_wait"
    /\ UNCHANGED <<pool_frame, processes, pool_alive, mask, num_samples_wo_col,
                   all_non_collide_idx, samples_to_return>>

WorkerTake ==
    /\ pc = "B_wait"
    /\ \E i \in DOMAIN pool_task : TaskTaken(i)
    /\ UNCHANGED <<pool_frame, processes, pool_alive, pool_slot, pool_order, mask, pc,
                   num_samples_wo_col, all_non_collide_idx, samples_to_return, checks>>

WorkerFinish ==
    /\ pc = "B_wait"
    /\ \E i \in DOMAIN pool_task : TaskFinished(i, CheckCollision(sample_motion_3D[i]))
    /\ UNCHANGED <<pool_frame, processes, pool_alive, mask, pc, num_samples_wo_col,
                   all_non_collide_idx, samples_to_return, checks>>

\* line 106: pool.map returns the result list
MapReturn ==
    /\ pc = "B_wait"
    /\ MapReady
    /\ mask' = pool_slot
    /\ pc' = "B_exit"
    /\ UNCHANGED <<pool_frame, processes, pool_alive, pool_task, pool_slot, pool_order,
                   num_samples_wo_col, all_non_collide_idx, samples_to_return, checks>>

\* the end of the with block: Pool.__exit__ terminates and joins the workers
PoolExit ==
    /\ pc = "B_exit"
    /\ pool_alive' = 0
    /\ pc' = "B_update"
    /\ UNCHANGED <<pool_frame, processes, pool_task, pool_slot, pool_order, mask,
                   num_samples_wo_col, all_non_collide_idx, samples_to_return, checks>>

\* lines 108-109: np.where(~is_collision_vec)[0], from the list pool.map returned
MaskIndicesWoCols == { i \in 1 .. Len(mask) : ~mask[i].col }

\* lines 110-117
PB_Update ==
    /\ pc = "B_update"
    /\ num_samples_wo_col' = Cardinality(MaskIndicesWoCols)
    /\ IF MaskIndicesWoCols = {}
       THEN UNCHANGED <<samples_to_return, all_non_collide_idx>>
       ELSE /\ samples_to_return' =
                  [i \in 1 .. Len(samples_to_return) |->
                      IF i \in MaskIndicesWoCols \ all_non_collide_idx
                      THEN sample_motion_3D[i] ELSE samples_to_return[i]]
            /\ all_non_collide_idx' = all_non_collide_idx \cup MaskIndicesWoCols
    /\ pc' = "B"
    /\ UNCHANGED <<pool_frame, pool_vars, checks>>

PoolNext ==
    \/ Dispatch
    \/ PB_Sample
    \/ PoolEnter
    \/ PoolMap
    \/ WorkerTake
    \/ WorkerFinish
    \/ MapReturn
    \/ PoolExit
    \/ PB_Update
    \/ B_LoopExit
    \/ B_Return

PoolSpec == PoolInit /\ [][PoolNext]_vars

---------------------------------------------------------------------------
(* The metric computation of _epoch_end (src/trainer.py lines 168-191),     *)
(* step by step: on the worker pool when args.mp is set, in place otherwise. *)

\* self.num_workers
NumWorkers == {1, 2}

\* eval_one_seq2 applied to args_list[i], tagged with the scene it was computed for
EvalOneSeq2(i) == [scene |-> i, metrics |-> outputs[i].metrics]

EpochInit ==
    /\ PolicyIdle
    /\ TrajsIdle
    /\ MainIdle
    /\ processes = 0
    /\ pool_alive = 0
    /\ pool_task = <<>>
    /\ pool_slot = <<>>
    /\ pool_order = <<>>
    /\ mask = None
    /\ mp \in BOOLEAN
    /\ all_metrics = None
    /\ mode = "val"
    /\ collisions_ok = "absent"
    /\ outputs = <<>>
    /\ results_dict = None
    /\ frames = None
    /\ trainer_pc = "steps"
    /\ trainer_raised = ""
    /\ policy_runs = 0
    /\ info_read = FALSE

\* what the steps of the metric computation leave alone
epoch_frame == <<policy_vars, trajs_vars, main_vars, mask, mp, mode, collisions_ok, outputs,
                frames, trainer_raised, policy_runs, info_read>>

\* lines 171-172: with multiprocessing.Pool(self.num_workers) as pool
E_PoolEnter ==
    /\ trainer_pc = "steps"
    /\ outputs # <<>>
    /\ mp
    /\ \E n \in NumWorkers : PoolStarted(n)
    /\ trainer_pc' = "epoch_map"
    /\ UNCHANGED <<epoch_frame, pool_task, pool_slot, pool_order, all_metrics, results_dict>>

\* line 173: pool.starmap is called with args_list
E_PoolStarmap ==
    /\ trainer_pc = "epoch_map"
    /\ TasksSubmitted(Len(outputs))
    /\ trainer_pc' = "epoch_wait"
    /\ UNCHANGED <<epoch_frame, processes, pool_alive, all_metrics, results_dict>>

E_WorkerTake ==
    /\ trainer_pc = "epoch_wait"
    /\ \E i \in DOMAIN pool_task : TaskTaken(i)
    /\ UNCHANGED <<epoch_frame, processes, pool_alive, pool_slot, pool_order, all_metrics,
                   results_dict, trainer_pc>>

E_WorkerFinish ==
    /\ trainer_pc = "epoch_wait"
    /\ \E i \in DOMAIN pool_task : TaskFinished(i, EvalOneSeq2(i))
    /\ UNCHANGED <<epoch_frame, processes, pool_alive, all_metrics, results_dict, trainer_pc>>

\* line 173: pool.starmap returns the result list
E_StarmapReturn ==
    /\ trainer_pc = "epoch_wait"
    /\ MapReady
    /\ all_metrics' = pool_slot
    /\ trainer_pc' = "epoch_exit"
    /\ UNCHANGED <<epoch_frame, processes, pool_alive, pool_task, pool_slot, pool_order,
                   results_dict>>

\* the end of the with block
E_PoolExit ==
    /\ trainer_pc = "epoch_exit"
    /\ pool_alive' = 0
    /\ trainer_pc' = "epoch_agg"
    /\ UNCHANGED <<epoch_frame, processes, pool_task, pool_slot, pool_order, all_metrics,
                   results_dict>>

\* lines 177-180: itertools.starmap, consumed in order by zip(*all_metrics)
E_Sequential ==
    /\ trainer_pc = "steps"
    /\ outputs # <<>>
    /\ ~mp
    /\ all_metrics' = [i \in 1 .. Len(outputs) |-> EvalOneSeq2(i)]
    /\ trainer_pc' = "epoch_agg"
    /\ UNCHANGED <<epoch_frame, processes, pool_alive, pool_task, pool_slot, pool_order,
                   results_dict>>

\* line 186: the k-th element of zip(*all_metrics)
E_Values(k) == [i \in 1 .. Len(all_metrics) |-> all_metrics[i].metrics[k]]

\* lines 187-190
E_Aggregated(k) ==
    IF IsSequenceMetric(StatsKeys[k])
    THEN <<SumSeq(E_Values(k)), Len(E_Values(k))>>
    ELSE <<SumSeq(Times(E_Values(k), NumAgentPerSeq)), SumSeq(NumAgentPerSeq)>>

\* lines 183-191
E_Aggregate ==
    /\ trainer_pc = "epoch_agg"
    /\ results_dict' =
          [key \in { StatsKeys[k] : k \in 1 .. Len(StatsKeys) } |->
              E_Aggregated(CHOOSE k \in 1 .. Len(StatsKeys) : StatsKeys[k] = key)]
    /\ trainer_pc' = "logged"
    /\ UNCHANGED <<epoch_frame, pool_alive, processes, pool_task, pool_slot, pool_order,
                   all_metrics>>

EpochNext ==
    \/ ValidationStep
    \/ E_PoolEnter
    \/ E_PoolStarmap
    \/ E_WorkerTake
    \/ E_WorkerFinish
    \/ E_StarmapReturn
    \/ E_PoolExit
    \/ E_Sequential
    \/ E_Aggregate

EpochSpec == EpochInit /\ [][EpochNext]_vars

---------------------------------------------------------------------------
(* main (src/bvisualize_outstanding.py lines 170-185): the selection of the *)
(* samples to draw, in an iteration for a method other than OURS.  Sample   *)
(* indices count from 0.                                                    *)

\* line 18
OURS == "af_mg1_jr1_w10"

\* line 170
num_samples == 3

\* samples per scene: the indices are 0 .. MainSamples - 1
MainSamples == 4

\* agents per scene: 1 .. MainPeds
MainPeds == 3

SampleIndices == 0 .. MainSamples - 1

\* the values ade_argmins may have: one sample index per agent
AdeArgmins == UNION { [1 .. n -> SampleIndices] : n \in 1 .. MainPeds }

\* the values np.argsort(sample_sades)[::-1] may have: the sample indices in
\* cyclic order, from any first one
SadesReverse ==
    { [j \in 1 .. MainSamples |-> (first + j - 1) % MainSamples] : first \in SampleIndices }

MainInit ==
    /\ PolicyIdle
    /\ TrainerIdle
    /\ TrajsIdle
    /\ PoolIdle
    /\ main_method \in Methods \ {OURS}
    /\ ade_argmins \in AdeArgmins
    /\ sades_reverse = <<>>
    /\ selected_samples = {}
    /\ sade_i = 0
    /\ main_pc = "select"

\* lines 173-178
M_Select ==
    /\ main_pc = "select"
    /\ main_method # OURS
    /\ selected_samples' = { ade_argmins[i] : i \in 1 .. Min(num_samples, Len(ade_argmins)) }
    /\ sades_reverse' \in SadesReverse
    /\ sade_i' = 0
    /\ main_pc' = "while"
    /\ UNCHANGED <<policy_vars, trainer_vars, trajs_vars, pool_vars, main_method, ade_argmins>>

\* lines 179-180: the loop body adds sades_reverse[sade_i] and leaves sade_i as it is
M_TopUp ==
    /\ main_pc = "while"
    /\ Cardinality(selected_samples) < 3
    /\ selected_samples' = selected_samples \cup {sades_reverse[sade_i + 1]}
    /\ UNCHANGED <<policy_vars, trainer_vars, trajs_vars, pool_vars, main_method, ade_argmins,
                   sades_reverse, sade_i, main_pc>>

\* lines 179 and 182: the loop is left
M_List ==
    /\ main_pc = "while"
    /\ ~(Cardinality(selected_samples) < 3)
    /\ main_pc' = "listed"
    /\ UNCHANGED <<policy_vars, trainer_vars, trajs_vars, pool_vars, main_method, ade_argmins,
                   sades_reverse, selected_samples, sade_i>>

MainNext ==
    \/ M_Select
    \/ M_TopUp
    \/ M_List

MainSpec == MainInit /\ [][MainNext]_vars

\* main is one sequential thread of control: it always takes its next step
MainFairSpec == MainSpec /\ WF_vars(MainNext)

---------------------------------------------------------------------------
(* Properties *)

Policy == PolicyOf(family)

\* the number of samples the call is to return: nk for policy B, the caller's
\* sample_k for policies A and C
Target == IF Policy = "B" THEN nk ELSE sample_k

\* samples drawn so far, over all invocations (exact below MaxInvocations)
BatchSize == IF Policy = "C" THEN NUM_SAMPLES_PER_FORWARD ELSE nk

Drawn == invocations * BatchSize

Returned == pc = "done"

\* C1: every policy returns exactly the configured target number of samples
\* (the caller's sample_k for A and C, nk for B), on every exit path.
C1_ReturnedCountEqualsTarget ==
    Returned => Len(samples_to_return) = Target

\* C2: the retry loops of policies B and C terminate for every sequence of
\* sampler outputs: the call eventually returns (or is aborted by the identity
\* assertion, which only a sampler repeating its previous output can cause).
C2_RetryLoopsTerminate ==
    (Policy \in {"B", "C"}) => <>(Returned \/ (raised = "AssertionError" /\ repeated))

\* policy C has returned after exhausting its budget with some, but not
\* enough, collision-free samples collected from a sampler that never repeated
C2_Witness ==
    /\ Returned
    /\ Policy = "C"
    /\ collision_info # None
    /\ "clean" \in seen
    /\ ~repeated
    /\ invocations > 1

\* C3: in policy C the cumulative number of samples drawn never exceeds
\* MAX_NUM_SAMPLES, whether or not the draws contained collision-free samples.
C3_C_DrawsWithinBudget ==
    Policy = "C" => Drawn <= MAX_NUM_SAMPLES

\* C4: policy B makes no sampler invocation once num_tries * nk >= MAX_NUM_SAMPLES,
\* so it makes at most ceil(MAX_NUM_SAMPLES / nk) invocations, and it makes at
\* least one before it leaves its loop.
C4_B_BudgetBoundsInvocations ==
    /\ [][(Policy = "B" /\ invocations' # invocations)
              => num_tries * nk < MAX_NUM_SAMPLES]_vars
    /\ [](Policy = "B" => invocations <= CeilDiv(MAX_NUM_SAMPLES, nk))
    /\ [](Policy = "B" /\ pc \in {"B_ret", "done"} => invocations >= 1)

\* policy B has returned after using its whole budget of several draws
C4_Witness ==
    /\ Returned
    /\ Policy = "B"
    /\ collision_info # None
    /\ invocations > 1
    /\ invocations = CeilDiv(MAX_NUM_SAMPLES, nk)

\* C5: in a 2-agent scene whose sampler only ever returns colliding samples
\* (never repeating a batch), every policy returns exactly sample_k samples and
\* collision_info = (2, sample_k); B and C after drawing MAX_NUM_SAMPLES samples.
C5_AlwaysColliding ==
    (Returned /\ num_peds = 2 /\ seen = {"colliding"} /\ ~repeated)
        => /\ Len(samples_to_return) = sample_k
           /\ collision_info = <<2, sample_k>>
           /\ Policy \in {"B", "C"} => Drawn = MAX_NUM_SAMPLES

\* C6: in a 2-agent scene whose sampler only ever returns collision-free
\* samples, every policy returns sample_k samples with collision_info None,
\* after one invocation (A, B) or ceil(sample_k / 30) invocations (C).
C6_NeverColliding ==
    (Returned /\ num_peds = 2 /\ seen = {"clean"} /\ ~repeated)
        => /\ Len(samples_to_return) = sample_k
           /\ collision_info = None
           /\ invocations = IF Policy = "C"
                            THEN CeilDiv(sample_k, NUM_SAMPLES_PER_FORWARD)
                            ELSE 1

\* C7: for a single-agent scene every policy makes one sampler invocation and
\* no collision check, and returns the first batch, of the target size, with
\* collision_info None.
C7_SingleAgentShortCircuit ==
    (Returned /\ num_peds = 1)
        => /\ invocations = 1
           /\ checks = 0
           /\ collision_info = None
           /\ Len(samples_to_return) = Target
           /\ samples_to_return = Take(sample_motion_3D, Target)

\* C8: in policy B the sample held for an index recorded non-colliding is
\* never replaced: it is, up to and including the value returned, the first
\* clean sample drawn at that index.
C8_B_KeepsFirstClean ==
    (Policy = "B" /\ num_peds > 1 /\ samples_to_return # None)
        => \A i \in all_non_collide_idx : samples_to_return[i] = firstClean[i]

\* C9: policy B stops drawing as soon as the number of all-time non-colliding
\* indices reaches nk, and then returns with collision_info None.
C9_B_StopsWhenAllIndicesClean ==
    (Policy = "B" /\ num_peds > 1 /\ Cardinality(all_non_collide_idx) = nk)
        => (~B_LoopCond /\ collision_info = None)

\* C10: when policy B exhausts its budget it returns the accumulator as it is:
\* each index recorded non-colliding holds the sample copied into it, every
\* other index the unfilled sentinel, and collision_info is
\* (agent_count, nk - number of all-time non-colliding indices).
C10_B_ExhaustedReturnsAccumulator ==
    (Returned /\ Policy = "B" /\ collision_info # None)
        => /\ \A i \in 1 .. nk :
                 samples_to_return[i] =
                     IF i \in all_non_collide_idx THEN firstClean[i] ELSE NaN
           /\ collision_info = <<num_peds, nk - Cardinality(all_non_collide_idx)>>

\* the returned samples that still collide (a one-agent scene has no collisions)
StillColliding == IF num_peds = 1 THEN <<>> ELSE IndexSelectColliding(samples_to_return)

\* C11: on every exit path of every policy, collision_info is None exactly
\* when none of the returned samples collides, and otherwise it is
\* (agent_count, c) with c the number of returned samples that still collide.
C11_CollisionInfoCountsReturnedCollisions ==
    Returned =>
        collision_info = IF Len(StillColliding) = 0 THEN None
                         ELSE <<num_peds, Len(StillColliding)>>

\* C12: in policies B and C, whatever traj_scale is, a sampler invocation that
\* returns the same batch as the invocation before it ends the call with the
\* assertion failure, at that draw.
C12_RepeatedBatchAborts ==
    (Policy \in {"B", "C"} /\ last_kind = "same_raw") => raised = "AssertionError"

\* C16: on every exit path of every policy the returned samples and the
\* returned ground truth are on the host, and the ground truth and every
\* returned sample have been multiplied by traj_scale exactly once.
C16_ReturnedOnHostScaledOnce ==
    Returned =>
        /\ pred_motion = "cpu"
        /\ gt_motion.device = "cpu"
        /\ gt_motion.scaled = 1
        /\ \A i \in 1 .. Len(samples_to_return) : samples_to_return[i].scaled = 1

\* policy B has returned, on a scaling run, the batch of its last draw after
\* exhausting a budget of several draws
C16_Witness ==
    /\ Returned
    /\ Policy = "B"
    /\ traj_scale # 1
    /\ num_peds > 1
    /\ collision_info # None
    /\ invocations > 1
    /\ Len(samples_to_return) = nk

\* policy A has returned for a scene of at least two agents
A_ReturnedMultiAgent == Returned /\ Policy = "A" /\ num_peds > 1

\* C17: in policy A with at least two agents, the result is the draw's
\* non-colliding samples in index order followed by its colliding samples in
\* index order, truncated to the first sample_k; so a colliding sample is
\* returned only if every non-colliding sample of the draw is returned, and no
\* colliding sample precedes a non-colliding one.
C17_A_CleanFirstThenTruncate ==
    A_ReturnedMultiAgent =>
        /\ samples_to_return =
               Take(IndexSelectClean(sample_motion_3D)
                        \o IndexSelectColliding(sample_motion_3D), sample_k)
        /\ (\E i \in 1 .. Len(samples_to_return) : samples_to_return[i].col)
               => \A j \in IndicesWoCols(sample_motion_3D) :
                     \E i \in 1 .. Len(samples_to_return) :
                        samples_to_return[i] = sample_motion_3D[j]
        /\ \A i, j \in 1 .. Len(samples_to_return) :
               (samples_to_return[i].col /\ ~samples_to_return[j].col) => j < i

\* C18: in policy A with at least two agents, with m the number of
\* non-colliding samples of the single draw and sample_k the requested target,
\* collision_info is (agent_count, sample_k - m) if m < sample_k and None
\* otherwise, and the sampler is invoked once only.
C18_A_CollisionInfoFromRequestedTarget ==
    A_ReturnedMultiAgent =>
        /\ collision_info =
               IF Cardinality(IndicesWoCols(sample_motion_3D)) < sample_k
               THEN <<num_peds, sample_k - Cardinality(IndicesWoCols(sample_motion_3D))>>
               ELSE None
        /\ invocations = 1

\* sample a was drawn before sample b: by an earlier invocation, or by the
\* same invocation at a smaller index
DrawnBefore(a, b) == a.draw < b.draw \/ (a.draw = b.draw /\ a.idx < b.idx)

\* policy C has made a draw, for a scene of at least two agents, in which no
\* sample is collision-free
C_ZeroCleanDraw ==
    /\ Policy = "C"
    /\ num_peds > 1
    /\ invocations' # invocations
    /\ raised' = raised
    /\ IndicesWoCols(sample_motion_3D') = {}

\* policy C has returned, for a scene of at least two agents, from a loop that
\* ended on a draw with collision-free samples, that is, not on the exhausted
\* budget (line 161 is reached in a draw without collision-free samples only)
C_ReturnedTargetReached ==
    /\ Returned
    /\ Policy = "C"
    /\ num_peds > 1
    /\ IndicesWoCols(sample_motion_3D) # {}

C_ReturnedExhausted ==
    /\ Returned
    /\ Policy = "C"
    /\ num_peds > 1
    /\ IndicesWoCols(sample_motion_3D) = {}

\* C20: when policy C exhausts its budget with b < sample_k collision-free
\* samples accumulated, the result is those b samples in accumulation order
\* followed by the first sample_k - b samples of the last draw, and
\* collision_info is (agent_count, sample_k - b).
C20_C_ExhaustedPadsWithLastDraw ==
    /\ [][(C_ZeroCleanDraw /\ pc' = "C_ret") =>
             /\ Len(samples_to_return) < sample_k
             /\ samples_to_return' =
                    samples_to_return
                        \o Take(sample_motion_3D', sample_k - Len(samples_to_return))
             /\ collision_info' = <<num_peds, sample_k - Len(samples_to_return)>>]_vars
    /\ [](C_ReturnedExhausted =>
             /\ Len(IndexSelectClean(samples_to_return)) < sample_k
             /\ samples_to_return =
                    IndexSelectClean(samples_to_return)
                        \o Take(sample_motion_3D,
                                sample_k - Len(IndexSelectClean(samples_to_return)))
             /\ collision_info =
                    <<num_peds, sample_k - Len(IndexSelectClean(samples_to_return))>>)

\* policy C has returned from the exhausted budget with one collision-free
\* sample collected and one sample of the last draw as padding
C20_Witness ==
    /\ C_ReturnedExhausted
    /\ sample_k = 2
    /\ Len(IndexSelectClean(samples_to_return)) = 1
    /\ samples_to_return[2] = sample_motion_3D[1]
    /\ samples_to_return[1].draw < samples_to_return[2].draw

\* the pass has been aggregated and logged
Logged == trainer_pc = "logged"

Scenes == 1 .. Len(outputs)

RECURSIVE SumOver(_, _)
\* the sum of f[i] over the i of S
SumOver(S, f) ==
    IF S = {} THEN 0
    ELSE LET i == CHOOSE x \in S : TRUE IN f[i] + SumOver(S \ {i}, f)

\* the quotients a and b are the same number
SameQuotient(a, b) == a[1] * b[2] = b[1] * a[2]

\* sum(v_i * n_i) / sum(n_i) for the k-th metric
AgentWeightedMean(k) ==
    <<SumOver(Scenes, [i \in Scenes |-> outputs[i].metrics[k] * outputs[i].gt_agents]),
      SumOver(Scenes, [i \in Scenes |-> outputs[i].gt_agents])>>

\* sum(v_i) / number of scenes for the k-th metric
UnweightedMean(k) ==
    <<SumOver(Scenes, [i \in Scenes |-> outputs[i].metrics[k]]), Cardinality(Scenes)>>

\* the key has neither '_joint' nor 'CR' in it
PerAgentKey(key) == \A i \in 1 .. Len(key) : key[i] \notin {"_joint", "CR"}

\* C13: _epoch_end aggregates every per-agent metric (a key with neither
\* '_joint' nor 'CR' in it) to sum(v_i * n_i) / sum(n_i) over the scenes, and
\* every joint or collision-rate metric to the unweighted mean sum(v_i) / N;
\* the marginal ADE is weighted by agent count, the joint ADE is not.
C13_AggregationWeighting ==
    Logged =>
        /\ \A k \in 1 .. Len(StatsKeys) :
              SameQuotient(results_dict[StatsKeys[k]],
                           IF PerAgentKey(StatsKeys[k]) THEN AgentWeightedMean(k)
                           ELSE UnweightedMean(k))
        /\ SameQuotient(results_dict[<<"ADE", "_marginal">>], AgentWeightedMean(1))
        /\ SameQuotient(results_dict[<<"ADE", "_joint">>], UnweightedMean(4))

\* two scenes with agent counts 1 and 3 have been aggregated, and the
\* weighted mean of their marginal ADEs is not the unweighted one
C13_Witness ==
    /\ Logged
    /\ Len(outputs) = 2
    /\ outputs[1].gt_agents = 1
    /\ outputs[2].gt_agents = 3
    /\ outputs[1].metrics[1] # outputs[2].metrics[1]
    /\ ~SameQuotient(results_dict[<<"ADE", "_marginal">>], UnweightedMean(1))
    /\ SameQuotient(results_dict[<<"ADE", "_joint">>], UnweightedMean(4))

\* the scenes of the pass whose collision_info is not None
ScenesWithResidual == { i \in Scenes : outputs[i].num_samples_w_col # None }

FrameIncomplete == listing.count["gt"] = 0 \/ listing.count["sample"] # NUM_SAMPLES

\* C15: get_trajs fails with an error that names the frame path, before doing
\* anything else after the loop over the files and without returning arrays,
\* whenever the frame directory has no ground-truth file or the number of
\* sample files loaded is not exactly 20; and whenever it returns, the ground
\* truth has 12 timesteps, the observation 8, and exactly 20 samples are stacked.
C15_GetTrajsFailsFastOrReturnsFixedShapes ==
    /\ FrameIncomplete =>
          /\ trajs_pc \in {"glob", "raised"}
          /\ trajs_result = None
          /\ trajs_pc = "raised" =>
                /\ trajs_raised.type = "AssertionError"
                /\ NameHas(trajs_raised.message, frame_path)
    /\ trajs_pc = "returned" =>
          /\ trajs_result.pred_gt_traj.timesteps = GT_TIMESTEPS
          /\ trajs_result.obs_traj.timesteps = OBS_TIMESTEPS
          /\ Len(trajs_result.pred_fake_traj) = NUM_SAMPLES

\* get_trajs has raised for a frame directory that has a ground-truth file
\* but one sample file too many
C15_Witness ==
    /\ trajs_pc = "raised"
    /\ listing.count["gt"] = 1
    /\ listing.count["sample"] = NUM_SAMPLES + 1
    /\ Len(samples) = NUM_SAMPLES + 1
    /\ NameHas(trajs_raised.message, frame_path)

\* C21: in policy C (sample_k >= 1, draws of 30 samples) the result buffer is
\* never empty once the loop is left, on any exit path: the 'should not get
\* here' branch of line 179 is never taken.
C21_C_BufferNeverEmptyAfterLoop ==
    Policy = "C" =>
        /\ pc \in {"C_ret", "done"} => Len(samples_to_return) > 0
        /\ pc # "debugger"

\* policy C has left its loop on the exhausted budget without having
\* collected any collision-free sample: the result is padding only
C21_Witness ==
    /\ Policy = "C"
    /\ pc = "C_ret"
    /\ num_peds > 1
    /\ seen = {"colliding"}
    /\ collision_info = <<num_peds, sample_k>>
    /\ Len(samples_to_return) = sample_k

\* policy C has made a draw, for a scene of at least two agents, that has
\* collision-free samples: lines 173-175 are evaluated for it
C_CleanDraw ==
    /\ Policy = "C"
    /\ num_peds > 1
    /\ invocations' # invocations
    /\ pc' # "raised"
    /\ IndicesWoCols(sample_motion_3D') # {}

\* C22: in policy C the two index assertions never fail: whenever they are
\* evaluated, the set of selected non-colliding indices is not empty and every
\* selected index i satisfies 0 <= i < number of samples of the current draw.
C22_C_IndexAssertionsHold ==
    /\ [](pc # "raised_index")
    /\ [][C_CleanDraw =>
             /\ NonCollideIdx(sample_motion_3D') # {}
             /\ \A i \in NonCollideIdx(sample_motion_3D') :
                   0 <= i /\ i < Len(sample_motion_3D')]_vars

\* policy C has passed the index assertions for a draw whose last sample, at
\* index 29, is collision-free, and has gone on
C22_Witness ==
    /\ Policy = "C"
    /\ num_peds > 1
    /\ pc = "C"
    /\ raised = ""
    /\ Len(sample_motion_3D) = NUM_SAMPLES_PER_FORWARD
    /\ ~sample_motion_3D[NUM_SAMPLES_PER_FORWARD].col
    /\ Len(samples_to_return) > 0

\* sequence a is a prefix of sequence b
IsPrefix(a, b) == Len(a) <= Len(b) /\ SubSeq(b, 1, Len(a)) = a

\* C23: in policy C the result buffer only grows: over every step its length
\* does not decrease and stays within sample_k, and the buffer before the step
\* is a prefix of the buffer after it (accepted samples are never removed,
\* replaced or reordered, by truncation or by padding).
C23_C_BufferGrowsByPrefix ==
    /\ [][Policy = "C" => IsPrefix(samples_to_return, samples_to_return')]_vars
    /\ [](Policy = "C" => Len(samples_to_return) <= sample_k)

\* policy C holds a full buffer that grew in two draws, the second of which
\* had more collision-free samples than there was room for
C23_Witness ==
    /\ Policy = "C"
    /\ num_peds > 1
    /\ pc = "C"
    /\ Len(samples_to_return) = sample_k
    /\ sample_k > 1
    /\ samples_to_return[1].draw < samples_to_return[sample_k].draw
    /\ Cardinality(IndicesWoCols(sample_motion_3D)) > 1

\* draws without collision-free samples that policy C can make without ending
C_MaxZeroDraws == CeilDiv(MAX_NUM_SAMPLES, NUM_SAMPLES_PER_FORWARD) - 1

\* C30: policy C makes at most sample_k + 9 sampler invocations, whatever the
\* sampler returns (sample_k >= 1, at least two agents): at most 9 draws
\* without collision-free samples occur without ending the policy, and every
\* other draw adds at least one sample to the buffer.
C30_C_InvocationBound ==
    /\ []((Policy = "C" /\ num_peds > 1) =>
             /\ invocations <= sample_k + 9
             /\ pc = "C" => num_zeros <= C_MaxZeroDraws)
    /\ [][C_CleanDraw => Len(samples_to_return') > Len(samples_to_return)]_vars

\* policy C has made sample_k + 9 invocations: 9 draws without collision-free
\* samples and sample_k draws that added one sample each
C30_Witness ==
    /\ Policy = "C"
    /\ num_peds > 1
    /\ sample_k > 1
    /\ invocations = sample_k + 9
    /\ num_zeros = C_MaxZeroDraws
    /\ Len(samples_to_return) = sample_k

\* the positions of a call inside each policy
PositionsOf(p) ==
    IF p = "A" THEN {"A"}
    ELSE IF p = "B" THEN {"B", "B_ret"}
    ELSE {"C", "C_ret", "raised_index", "debugger"}

\* C27: run_model_w_col_rej runs exactly one policy per call, chosen by the
\* model family: A for a dlow model whose config id has 'nk' in it, B for any
\* other dlow model, C for an agentformer model; for any other family it
\* raises NotImplementedError, without invoking the sampler and without
\* returning a result.
C27_DispatchByFamily ==
    /\ pc \in PositionsOf("A") => family = "dlow_nk"
    /\ pc \in PositionsOf("B") => family = "dlow"
    /\ pc \in PositionsOf("C") => family = "agentformer"
    /\ \A p \in {"A", "B", "C"} :
          pc \in PositionsOf(p) =>
              /\ invocations > 0 => Len(sample_motion_3D) = (IF p = "C" THEN NUM_SAMPLES_PER_FORWARD ELSE nk)
              /\ p # "B" => all_non_collide_idx = {} /\ num_samples_wo_col = 0
              /\ p # "C" => num_zeros = 0
              /\ p = "A" => num_tries = 0 /\ sample_motion_3D_prev = None
    /\ family \notin {"dlow_nk", "dlow", "agentformer"} =>
          /\ pc \in {"start", "raised"}
          /\ pc = "raised" => raised = "NotImplementedError"
          /\ invocations = 0
          /\ checks = 0
          /\ pred_motion = ""
          /\ gt_motion = None
          /\ samples_to_return = None
    /\ raised = "NotImplementedError" =>
          family \notin {"dlow_nk", "dlow", "agentformer"}

\* a call for a model of another family has raised NotImplementedError
C27_Witness ==
    /\ pc = "raised"
    /\ raised = "NotImplementedError"
    /\ family = "other"
    /\ invocations = 0

\* policy B has left its loop, or returned, for a scene of two or more agents
\* without reporting residual collisions
B_ReturnsClean ==
    /\ Policy = "B"
    /\ num_peds > 1
    /\ pc \in {"B_ret", "done"}
    /\ collision_info = None

\* C28: whenever policy B returns with collision_info None for a scene with
\* at least two agents, no slot of the returned accumulator holds the unfilled
\* sentinel, and every slot i holds a non-colliding sample: the one drawn at
\* index i in the first draw in which index i was non-colliding.
C28_B_CleanReturnIsFullyFilled ==
    B_ReturnsClean =>
        /\ Len(samples_to_return) = nk
        /\ \A i \in 1 .. nk :
              /\ samples_to_return[i] # NaN
              /\ ~samples_to_return[i].col
              /\ samples_to_return[i].idx = i
              /\ samples_to_return[i] = firstClean[i]

\* a clean return whose slots were filled in different draws
C28_Witness ==
    /\ B_ReturnsClean
    /\ pc = "done"
    /\ samples_to_return[1].draw < samples_to_return[nk].draw

\* the collision check of the draw has been made on the pool
PoolChecked == Policy = "B" /\ pc \in {"B_exit", "B_update"}

\* the step of lines 110-117
PB_UpdateStep == pc = "B_update" /\ pc' = "B"

\* C24: parallel collision checking preserves sample order: in whatever
\* order the workers finish, the i-th result the policy uses is the one
\* computed for the i-th sample of the batch, so the indices classified
\* non-colliding, and what the policy does with them, are those of a
\* sequential check.
C24_PoolPreservesSampleOrder ==
    /\ [](PoolChecked =>
             /\ Len(mask) = Len(sample_motion_3D)
             /\ \A i \in 1 .. Len(mask) : mask[i] = CheckCollision(sample_motion_3D[i])
             /\ MaskIndicesWoCols = IndicesWoCols(sample_motion_3D))
    /\ [][PB_UpdateStep =>
             /\ num_samples_wo_col' = Cardinality(IndicesWoCols(sample_motion_3D))
             /\ all_non_collide_idx' = all_non_collide_idx \cup IndicesWoCols(sample_motion_3D)
             /\ samples_to_return' = IF IndicesWoCols(sample_motion_3D) = {}
                                     THEN B_NotUpdated(sample_motion_3D)
                                     ELSE B_Updated(sample_motion_3D)]_vars

\* the workers finished out of order, on samples of different collision status
C24_Witness ==
    /\ PoolChecked
    /\ pc = "B_update"
    /\ Len(pool_order) > 1
    /\ pool_order[1] > pool_order[2]
    /\ sample_motion_3D[pool_order[1]].col # sample_motion_3D[pool_order[2]].col

\* C25: in policy B the parallelism of the collision check is strictly
\* nested: workers are alive only inside the with block, every task of the
\* draw has finished and the workers are gone before the accumulator or the
\* set of all-time non-colliding indices is used for that draw, and no step
\* changes either of them while a worker is alive.
C25_PoolNestedInDraw ==
    /\ [](pool_alive > 0 => pc \in {"B_map", "B_wait", "B_exit"})
    /\ [](Running # {} => (pc = "B_wait" /\ pool_alive >= Cardinality(Running)))
    /\ [](pc = "B_update" => /\ pool_alive = 0
                             /\ Len(pool_task) = nk
                             /\ \A i \in DOMAIN pool_task : pool_task[i] = "done")
    /\ [][(samples_to_return' # samples_to_return
              \/ all_non_collide_idx' # all_non_collide_idx)
            => /\ pool_alive = 0
               /\ \A i \in DOMAIN pool_task : pool_task[i] = "done"]_vars

\* the accumulator has been updated after a check that two workers shared
C25_Witness ==
    /\ Policy = "B"
    /\ pc = "B"
    /\ processes > 1
    /\ pool_alive = 0
    /\ Len(pool_order) = nk
    /\ all_non_collide_idx # {}
    /\ \E i \in all_non_collide_idx : samples_to_return[i] = sample_motion_3D[i]

\* C26: the per-scene metrics of _epoch_end give the same aggregated results
\* on the worker pool (args.mp) as sequentially: in whatever order the
\* workers finish, the i-th metric tuple is that of the i-th scene output, so
\* every scene's metrics are weighted by that scene's own agent count.
C26_PoolAndSequentialAgree ==
    /\ trainer_pc \in {"epoch_exit", "epoch_agg", "logged"} =>
          /\ Len(all_metrics) = Len(outputs)
          /\ \A i \in 1 .. Len(outputs) : all_metrics[i] = EvalOneSeq2(i)
    /\ trainer_pc = "logged" =>
          /\ results_dict = MetricResults
          /\ \A k \in 1 .. Len(StatsKeys) :
                ~IsSequenceMetric(StatsKeys[k]) =>
                    results_dict[StatsKeys[k]][1] =
                        SumSeq([i \in 1 .. Len(outputs) |->
                                   outputs[i].metrics[k] * outputs[i].gt_agents])

\* two scenes that differ in metrics and agent count, computed on the pool,
\* the second finishing first
C26_Witness ==
    /\ trainer_pc = "logged"
    /\ mp
    /\ Len(outputs) > 1
    /\ pool_order[1] = 2
    /\ outputs[1].gt_agents # outputs[2].gt_agents
    /\ outputs[1].metrics # outputs[2].metrics

\* C29: in main, for every method other than OURS and every scene, the loop
\* that tops up selected_samples terminates and leaves exactly 3 distinct
\* sample indices selected.
C29_TopUpTerminatesWithThree ==
    (main_pc = "select" /\ main_method # OURS)
        ~> (main_pc = "listed" /\ Cardinality(selected_samples) = 3)

====
